---- MODULE Spec2Model ----
(***************************************************************************)
(* Model of the pronoun resolution of package dt (NewMsg -> addContext ->  *)
(* getContextObject, SentenceFields) and of the place-name extraction of   *)
(* package language (ExtractCities, bigrams).                              *)
(*                                                                         *)
(* Mention strings of a StructuredInput are opaque values: the code only   *)
(* compares them and tests them against "".  Strings whose characters      *)
(* matter (sentences, tokens, city names) are sequences of one-character   *)
(* strings.                                                                *)
(***************************************************************************)
EXTENDS Integers, Sequences, FiniteSets, TLC

VARIABLES
    store,      \* table inputs: rows in creation order (oldest first)
    user,       \* m.User: NoUser (nil) or a user id
    input,      \* m.StructuredInput as NewMsg hands it to addContext
    si,         \* m.StructuredInput, mutated in place by addContext
    pc,         \* position of addContext: "loop", "done" ("idle": not called)
    i,          \* index of the range loop over Pronouns(), from 1
    err,        \* the error addContext returns
    calls,      \* the calls of getContextObject made so far, with their results
    cmd,        \* the sentence NewMsg is given: its whitespace-separated fields
    msg,        \* the dt.Msg NewMsg builds: Sentence, Stems, SentenceFields
    gazetteer,  \* table cities: set of rows (name, countrycode)
    lpc,        \* "new", "msg" (NewMsg has built msg), "done" ("idle": unused)
    start,      \* local start of ExtractCities
    args,       \* local args of ExtractCities
    cities,     \* what ExtractCities returned
    cerr        \* the error ExtractCities returned

resolveVars == <<store, user, input, si, pc, i, err, calls>>
langVars == <<cmd, msg, gazetteer, lpc, start, args, cities, cerr>>
vars == <<store, user, input, si, pc, i, err, calls,
          cmd, msg, gazetteer, lpc, start, args, cities, cerr>>

(***************************************************************************)
(* Bounds                                                                  *)
(***************************************************************************)
MaxTurns == 2
MaxPronouns == 3
MaxWords == 3

\* All sequences over S of length at most n.
SeqsUpTo(S, n) == UNION {[1..k -> S] : k \in 0..n}

\* The sequences of SeqsUpTo(S, n) without a repeated element.
DistinctSeqsUpTo(S, n) ==
    {s \in SeqsUpTo(S, n) : \A a, b \in 1..Len(s) : a # b => s[a] # s[b]}

(***************************************************************************)
(* Part 1: addContext and getContextObject                                 *)
(***************************************************************************)
NoUser == 0

\* nlp.Pronouns: the fixed pronoun -> category table.  A word that is not a
\* key yields the zero value, which is none of the four categories.
Pronouns(w) ==
    CASE w = "it" -> "ObjectI"
      [] w = "he" -> "ActorI"
      [] w = "then" -> "TimeI"
      [] w = "there" -> "PlaceI"
      [] OTHER -> "zero"

\* StringSlice.Last: the last element, "" for an empty slice.
Last(s) == IF Len(s) = 0 THEN "" ELSE s[Len(s)]

\* WHERE userid=$1 AND array_length(objects, 1) > 0
Qualifying(uid) ==
    {k \in 1..Len(store) : store[k].userid = uid /\ Len(store[k].objects) > 0}

\* db.Get(&tmp, q, u.ID): sql.ErrNoRows when the query selects no row, and
\* otherwise the first row of a result that has no ORDER BY: any selected row.
dbGet(uid, datatype) ==
    IF Qualifying(uid) = {}
    THEN {[err |-> "sql.ErrNoRows", tmp |-> <<>>, row |-> 0]}
    ELSE {[err |-> "nil", tmp |-> store[k][datatype], row |-> k] :
             k \in Qualifying(uid)}

\* Mutant: the nil check on the user is missing and the query runs with id 0.
getContextObjectNoNilCheck(u, datatype) ==
    {[user |-> u, datatype |-> datatype, queried |-> TRUE, row |-> r.row,
      tmp |-> r.tmp, err |-> r.err,
      ctx |-> IF r.err # "nil" THEN "" ELSE Last(r.tmp)] :
        r \in dbGet(u, datatype)}

\* getContextObject: the set of results the call can have.
getContextObject(u, datatype) ==
    IF u = NoUser
    THEN {[user |-> u, datatype |-> datatype, queried |-> FALSE, row |-> 0,
           tmp |-> <<>>, err |-> "ErrMissingUser", ctx |-> ""]}
    ELSE {[user |-> u, datatype |-> datatype, queried |-> TRUE, row |-> r.row,
           tmp |-> r.tmp, err |-> r.err,
           ctx |-> IF r.err # "nil" THEN "" ELSE Last(r.tmp)] :
             r \in dbGet(u, datatype)}

\* Mutant: the rewrite stops after the first entry equal to w.
RewriteFirstOnly(list, w, ctx) ==
    [k \in 1..Len(list) |->
        IF list[k] = w /\ \A j \in 1..(k - 1) : list[j] # w
        THEN ctx ELSE list[k]]

\* for i, o := range list { if o != w { continue }; list[i] = ctx }
Rewrite(list, w, ctx) ==
    [k \in 1..Len(list) |-> IF list[k] # w THEN list[k] ELSE ctx]

\* Mutant: an empty antecedent skips the pronoun and the loop goes on.
ResolveCaseSkipMiss(field, datatype) ==
    \E r \in getContextObject(user, datatype) :
        /\ calls' = Append(calls, r)
        /\ IF r.err # "nil"
           THEN /\ pc' = "done"
                /\ err' = r.err
                /\ UNCHANGED <<si, i>>
           ELSE IF r.ctx = ""
           THEN /\ i' = i + 1
                /\ UNCHANGED <<si, pc, err>>
           ELSE /\ si' = [si EXCEPT ![field] = Rewrite(@, si.Pronouns[i], r.ctx)]
                /\ i' = i + 1
                /\ UNCHANGED <<pc, err>>

\* One case of the switch: the lookup, the two early returns, the rewrite.
ResolveCase(field, datatype) ==
    \E r \in getContextObject(user, datatype) :
        /\ calls' = Append(calls, r)
        /\ IF r.err # "nil"
           THEN /\ pc' = "done"
                /\ err' = r.err
                /\ UNCHANGED <<si, i>>
           ELSE IF r.ctx = ""
           THEN /\ pc' = "done"
                /\ err' = "nil"
                /\ UNCHANGED <<si, i>>
           ELSE /\ si' = [si EXCEPT ![field] = Rewrite(@, si.Pronouns[i], r.ctx)]
                /\ i' = i + 1
                /\ UNCHANGED <<pc, err>>

InLoop == pc = "loop" /\ i <= Len(si.Pronouns)

caseObjectI ==
    /\ InLoop
    /\ Pronouns(si.Pronouns[i]) = "ObjectI"
    /\ ResolveCase("Objects", "objects")
    /\ UNCHANGED <<store, user, input>>
    /\ UNCHANGED langVars

caseActorI ==
    /\ InLoop
    /\ Pronouns(si.Pronouns[i]) = "ActorI"
    /\ ResolveCase("Actors", "actors")
    /\ UNCHANGED <<store, user, input>>
    /\ UNCHANGED langVars

caseTimeI ==
    /\ InLoop
    /\ Pronouns(si.Pronouns[i]) = "TimeI"
    /\ ResolveCase("Times", "times")
    /\ UNCHANGED <<store, user, input>>
    /\ UNCHANGED langVars

casePlaceI ==
    /\ InLoop
    /\ Pronouns(si.Pronouns[i]) = "PlaceI"
    /\ ResolveCase("Places", "places")
    /\ UNCHANGED <<store, user, input>>
    /\ UNCHANGED langVars

\* Mutant: a pronoun outside the table is skipped and the loop goes on.
caseDefaultSkip ==
    /\ InLoop
    /\ Pronouns(si.Pronouns[i]) = "zero"
    /\ i' = i + 1
    /\ UNCHANGED <<store, user, input, si, pc, err, calls>>
    /\ UNCHANGED langVars

\* default: return m, errors.New("unknown type found for pronoun")
caseDefault ==
    /\ InLoop
    /\ Pronouns(si.Pronouns[i]) = "zero"
    /\ pc' = "done"
    /\ err' = "unknown type found for pronoun"
    /\ UNCHANGED <<store, user, input, si, i, calls>>
    /\ UNCHANGED langVars

\* Mutant: the user is checked before the loop, whatever the pronouns are.
addContextReturnChecksUser ==
    /\ pc = "loop"
    /\ i > Len(si.Pronouns)
    /\ pc' = "done"
    /\ err' = IF user = NoUser THEN "ErrMissingUser" ELSE "nil"
    /\ UNCHANGED <<store, user, input, si, i, calls>>
    /\ UNCHANGED langVars

\* The range loop is exhausted: return m, nil
addContextReturn ==
    /\ pc = "loop"
    /\ i > Len(si.Pronouns)
    /\ pc' = "done"
    /\ err' = "nil"
    /\ UNCHANGED <<store, user, input, si, i, calls>>
    /\ UNCHANGED langVars

\* The rows the table inputs is drawn from.
Rows ==
    { [userid |-> 1, objects |-> <<"shirt">>, actors |-> <<"bob">>,
       times |-> <<>>, places |-> <<"paris">>],
      [userid |-> 1, objects |-> <<"hat", "shoe">>, actors |-> <<>>,
       times |-> <<"noon">>, places |-> <<>>],
      [userid |-> 1, objects |-> <<>>, actors |-> <<"amy">>,
       times |-> <<"dawn">>, places |-> <<"rome">>],
      [userid |-> 2, objects |-> <<"car">>, actors |-> <<"eve">>,
       times |-> <<"dusk">>, places |-> <<"oslo">>] }

PronounWords == {"it", "he", "then", "there", "zzz"}

\* The StructuredInputs the classifier hands over.
Inputs ==
    [Objects : {<<>>, <<"it", "cup", "it">>},
     Actors : {<<>>, <<"he", "it">>},
     Times : {<<"then">>, <<"it", "then">>},
     Places : {<<"there">>},
     Pronouns : DistinctSeqsUpTo(PronounWords, MaxPronouns)]

EmptyInput ==
    [Objects |-> <<>>, Actors |-> <<>>, Times |-> <<>>, Places |-> <<>>,
     Pronouns |-> <<>>]

NoMsg == [Sentence |-> <<>>, Stems |-> <<>>, SentenceFields |-> <<>>]

LangIdle ==
    /\ cmd = <<>>
    /\ msg = NoMsg
    /\ gazetteer = {}
    /\ lpc = "idle"
    /\ start = 0
    /\ args = <<>>
    /\ cities = <<>>
    /\ cerr = "nil"

\* NewMsg has built m and calls addContext(db, m).
Init ==
    /\ store \in SeqsUpTo(Rows, MaxTurns)
    /\ user \in {NoUser, 1}
    /\ input \in Inputs
    /\ si = input
    /\ pc = "loop"
    /\ i = 1
    /\ err = "nil"
    /\ calls = <<>>
    /\ LangIdle

Next ==
    \/ caseObjectI
    \/ caseActorI
    \/ caseTimeI
    \/ casePlaceI
    \/ caseDefault
    \/ addContextReturn

Spec == Init /\ [][Next]_vars

(***************************************************************************)
(* Part 2: NewMsg's Stems and SentenceFields, ExtractCities, bigrams       *)
(***************************************************************************)
\* The words sentences are made of, as sequences of characters.
wIn == <<"i", "n">>
wOn == <<"o", "n">>
wNew == <<"N", "e", "w">>
wYork == <<"Y", "o", "r", "k">>
wYorkComma == <<"Y", "o", "r", "k", ",">>
wIts == <<"I", "t", "'", "s">>
wDash == <<"-">>

Vocabulary == {wIn, wOn, wNew, wYork, wYorkComma, wIts, wDash}

\* strings.ToLower on the characters of the vocabulary.
LowerChar(c) ==
    CASE c = "N" -> "n"
      [] c = "Y" -> "y"
      [] c = "I" -> "i"
      [] OTHER -> c

ToLower(w) == [k \in 1..Len(w) |-> LowerChar(w[k])]

\* strings.TrimRight(w, cutset)
RECURSIVE TrimRight(_, _)
TrimRight(w, cutset) ==
    IF Len(w) > 0 /\ w[Len(w)] \in cutset
    THEN TrimRight(SubSeq(w, 1, Len(w) - 1), cutset)
    ELSE w

StemCutset == {",", ".", "?", ";", ":", "!", "-", "/"}

\* porter2.Stemmer.Stem on the vocabulary: the word in lower case without a
\* trailing 's (step 0 of the algorithm); no other suffix occurs.
Stem(w) ==
    LET l == ToLower(w) IN
    IF Len(l) >= 2 /\ l[Len(l) - 1] = "'" /\ l[Len(l)] = "s"
    THEN SubSeq(l, 1, Len(l) - 2)
    ELSE l

\* NewMsg: stems of the fields of cmd, each trimmed of trailing punctuation.
Stems(sentence) ==
    [k \in 1..Len(sentence) |-> Stem(TrimRight(sentence[k], StemCutset))]

\* case '\'', '"', ',', '.', ':', ';', '!', '?'
Marks == {"'", "\"", ",", ".", ":", ";", "!", "?"}

\* The body of SentenceFields' outer loop for one word w: every mark found in
\* w is appended as a token while w is scanned, then the word itself is
\* appended, without its last character when a mark was found.
FieldsOfWord(w) ==
    LET marks == SelectSeq(w, LAMBDA r : r \in Marks)
        found == [k \in 1..Len(marks) |-> <<marks[k]>>]
    IN IF Len(marks) > 0
       THEN found \o <<ToLower(SubSeq(w, 1, Len(w) - 1))>>
       ELSE found \o <<ToLower(w)>>

RECURSIVE SentenceFields(_)
SentenceFields(sentence) ==
    IF sentence = <<>>
    THEN <<>>
    ELSE FieldsOfWord(Head(sentence)) \o SentenceFields(Tail(sentence))

\* NewMsg builds the message: Sentence, Stems, SentenceFields.
NewMsg ==
    /\ lpc = "new"
    /\ msg' = [Sentence |-> cmd, Stems |-> Stems(cmd),
               SentenceFields |-> SentenceFields(cmd)]
    /\ lpc' = "msg"
    /\ UNCHANGED <<cmd, gazetteer, start, args, cities, cerr>>
    /\ UNCHANGED resolveVars

Prepositions == {<<"a", "t">>, <<"i", "n">>, <<"o", "n">>}

\* for i := range in.Stems { switch in.Stems[i] { case "at", "in", "on":
\* start = i; break } }: the break leaves the switch, the loop goes on.
\* k is the 0-based loop index, st the value of start so far.
RECURSIVE StartLoop(_, _, _)
StartLoop(stems, k, st) ==
    IF k >= Len(stems)
    THEN st
    ELSE StartLoop(stems, k + 1,
                   IF stems[k + 1] \in Prepositions THEN k ELSE st)

\* The characters regexNonWords ([^\w\s]) removes, among those that occur.
NonWordChars == Marks \cup StemCutset

\* regexNonWords.ReplaceAllString(in.Sentence, "") followed by strings.Fields:
\* every field without its non-word characters, fields left empty dropped.
Words(sentence) ==
    SelectSeq([k \in 1..Len(sentence) |->
                  SelectSeq(sentence[k], LAMBDA r : r \notin NonWordChars)],
              LAMBDA w : w # <<>>)

\* Mutant: the bigrams are built from the first word on.
RECURSIVE bigramsFromZero(_, _)
bigramsFromZero(words, startIndex) ==
    IF 0 >= Len(words) - 1
    THEN <<>>
    ELSE <<words[1] \o <<" ">> \o words[2]>>
         \o bigramsFromZero(Tail(words), startIndex)

\* bigrams(words, startIndex), startIndex 0-based.
RECURSIVE bigrams(_, _)
bigrams(words, startIndex) ==
    IF startIndex >= Len(words) - 1
    THEN <<>>
    ELSE <<words[startIndex + 1] \o <<" ">> \o words[startIndex + 2]>>
         \o bigrams(words, startIndex + 1)

\* for i := start; i < len(words); i++ { args = append(args, words[i]) }
Unigrams(words, st) ==
    IF st >= Len(words) THEN <<>> ELSE SubSeq(words, st + 1, Len(words))

Range(s) == {s[k] : k \in 1..Len(s)}

\* WHERE countrycode='US' AND name IN (?): the rows the query selects.  With
\* no argument sqlx.In fails, its error is overwritten, and the empty query
\* text that is then run selects nothing.
Selected(a) ==
    {g \in gazetteer : g.countrycode = "US" /\ g.name \in Range(a)}

\* ORDER BY LENGTH(name) DESC: the orders the rows can come in.
Ordered(rows) ==
    {s \in [1..Cardinality(rows) -> rows] :
        /\ \A a, b \in 1..Cardinality(rows) : a # b => s[a] # s[b]
        /\ \A a, b \in 1..Cardinality(rows) :
               a < b => Len(s[a].name) >= Len(s[b].name)}

ExtractCities ==
    /\ lpc = "msg"
    /\ LET st == StartLoop(msg.Stems, 0, 0)
           words == Words(msg.Sentence)
           a == Unigrams(words, st) \o bigrams(words, st)
       IN /\ start' = st
          /\ args' = a
          /\ cities' \in Ordered(Selected(a))
    /\ cerr' = "nil"
    /\ lpc' = "done"
    /\ UNCHANGED <<cmd, msg, gazetteer>>
    /\ UNCHANGED resolveVars

NewYork == <<"N", "e", "w", " ", "Y", "o", "r", "k">>

\* The rows the table cities is drawn from.
GazetteerRows ==
    { [name |-> NewYork, countrycode |-> "US"],
      [name |-> wYork, countrycode |-> "US"],
      [name |-> wYork, countrycode |-> "GB"],
      [name |-> <<"Y", "o", "r", "k", " ", "I", "t", "s">>, countrycode |-> "US"] }

ResolveIdle ==
    /\ store = <<>>
    /\ user = NoUser
    /\ input = EmptyInput
    /\ si = EmptyInput
    /\ pc = "idle"
    /\ i = 1
    /\ err = "nil"
    /\ calls = <<>>

InitLang ==
    /\ cmd \in SeqsUpTo(Vocabulary, MaxWords)
    /\ msg = NoMsg
    /\ gazetteer \in SUBSET GazetteerRows
    /\ lpc = "new"
    /\ start = 0
    /\ args = <<>>
    /\ cities = <<>>
    /\ cerr = "nil"
    /\ ResolveIdle

NextLang ==
    \/ NewMsg
    \/ ExtractCities

SpecLang == InitLang /\ [][NextLang]_vars

(***************************************************************************)
(* Claims about addContext and getContextObject                            *)
(***************************************************************************)
CategoryFields == {"Objects", "Actors", "Times", "Places"}

\* The category list and the column a pronoun category stands for.
FieldOf(cat) ==
    CASE cat = "ObjectI" -> "Objects"
      [] cat = "ActorI" -> "Actors"
      [] cat = "TimeI" -> "Times"
      [] cat = "PlaceI" -> "Places"

ColumnOf(cat) ==
    CASE cat = "ObjectI" -> "objects"
      [] cat = "ActorI" -> "actors"
      [] cat = "TimeI" -> "times"
      [] cat = "PlaceI" -> "places"

\* This step called getContextObject.
Looked == Len(calls') = Len(calls) + 1

\* Once addContext has returned nothing changes any more.
ReturnIsFinal ==
    pc = "done" => pc' = "done" /\ si' = si /\ calls' = calls /\ err' = err

\* C1: with an empty pronoun set addContext returns the StructuredInput with
\* all four category lists (and the pronouns) as they were, returns no error
\* and calls no history lookup, with or without a user.
C1_EmptyPronounsNoOp ==
    (pc = "done" /\ input.Pronouns = <<>>) =>
        /\ si = input
        /\ err = "nil"
        /\ calls = <<>>

C1_Witness ==
    /\ pc = "done"
    /\ input.Pronouns = <<>>
    /\ user = NoUser
    /\ input.Objects # <<>>
    /\ Len(store) > 0

\* C2: a step whose lookup for pronoun w of category c gave a non-empty
\* antecedent a replaces exactly the entries of c's list equal to w by a; the
\* other entries of c, the three other lists and the pronouns stay as they are.
C2_RewriteExactMatches ==
    [][ (Looked /\ calls'[Len(calls')].err = "nil"
                /\ calls'[Len(calls')].ctx # "") =>
          LET w == si.Pronouns[i]
              c == FieldOf(Pronouns(w))
              a == calls'[Len(calls')].ctx
          IN /\ calls'[Len(calls')].datatype = ColumnOf(Pronouns(w))
             /\ Len(si'[c]) = Len(si[c])
             /\ \A k \in 1..Len(si[c]) :
                    si'[c][k] = IF si[c][k] = w THEN a ELSE si[c][k]
             /\ \A f \in CategoryFields \ {c} : si'[f] = si[f]
             /\ si'.Pronouns = si.Pronouns ]_vars

C2_Witness ==
    /\ input.Objects = <<"it", "cup", "it">>
    /\ si.Objects = <<"shoe", "cup", "shoe">>
    /\ si.Actors = <<"he", "it">>
    /\ si.Times = <<"it", "then">>

\* C3: a lookup that returns an empty antecedent without an error makes
\* addContext return at once with no error: the pronoun stays unresolved, no
\* later pronoun is looked up or rewritten, and earlier rewrites stay.
C3_ShortCircuitOnMiss ==
    [][ /\ (Looked /\ calls'[Len(calls')].err = "nil"
                   /\ calls'[Len(calls')].ctx = "") =>
              /\ pc' = "done"
              /\ err' = "nil"
              /\ si' = si
              /\ i' = i
        /\ ReturnIsFinal ]_vars

C3_Witness ==
    /\ pc = "done"
    /\ err = "nil"
    /\ si.Pronouns = <<"it", "then", "there">>
    /\ i = 2
    /\ Len(calls) = 2
    /\ calls[2].ctx = ""
    /\ si.Objects # input.Objects
    /\ si.Times = input.Times
    /\ si.Places = <<"there">>
    /\ \E k \in Qualifying(user) : store[k].places # <<>>

\* C4: with a user present getContextObject returns "" and no error when the
\* user has no qualifying turn and when the selected turn's requested column
\* is empty; a missing row is never an error.
C4_NoRowIsNotAnError ==
    \A k \in 1..Len(calls) :
        LET c == calls[k] IN
        c.user # NoUser =>
            /\ Qualifying(c.user) = {} => (c.ctx = "" /\ c.err = "nil")
            /\ (c.row # 0 /\ c.tmp = <<>>) => (c.ctx = "" /\ c.err = "nil")
            /\ c.err # "sql.ErrNoRows"

\* C5: a pronoun of one of the four categories reached without a user makes
\* addContext return ErrMissingUser; no query is issued and the category
\* lists stay as they are.
C5_MissingUserNoQuery ==
    [][ (InLoop /\ user = NoUser /\ Pronouns(si.Pronouns[i]) # "zero") =>
          /\ pc' = "done"
          /\ err' = "ErrMissingUser"
          /\ si' = si
          /\ \A k \in 1..Len(calls') : ~calls'[k].queried ]_vars

C5_Witness ==
    /\ pc = "done"
    /\ user = NoUser
    /\ err = "ErrMissingUser"
    /\ Len(calls) = 1
    /\ ~calls[1].queried
    /\ Len(store) > 0
    /\ si = input

\* C6: a pronoun the table maps to none of the four categories makes
\* addContext return the unknown-pronoun error when the loop reaches it: no
\* later pronoun is processed and the rewrites made before stay.
C6_UnknownPronounAborts ==
    [][ /\ (InLoop /\ Pronouns(si.Pronouns[i]) = "zero") =>
              /\ pc' = "done"
              /\ err' = "unknown type found for pronoun"
              /\ si' = si
              /\ i' = i
              /\ calls' = calls
        /\ ReturnIsFinal ]_vars

C6_Witness ==
    /\ pc = "done"
    /\ err = "unknown type found for pronoun"
    /\ si.Pronouns = <<"it", "zzz", "there">>
    /\ i = 2
    /\ Len(calls) = 1
    /\ si.Objects # input.Objects
    /\ si.Places = <<"there">>
    /\ \E k \in Qualifying(user) : store[k].places # <<>>

\* The most recently created qualifying turn of a user.
MostRecent(uid) ==
    CHOOSE k \in Qualifying(uid) : \A j \in Qualifying(uid) : j <= k

\* C7: a successful lookup returns the last element of the requested column
\* of the most recently created turn of that user with non-empty objects.
C7_MostRecentQualifyingTurn ==
    \A k \in 1..Len(calls) :
        LET c == calls[k] IN
        c.err = "nil" =>
            c.ctx = Last(store[MostRecent(c.user)][c.datatype])

(***************************************************************************)
(* Claims about ExtractCities and SentenceFields                           *)
(***************************************************************************)
\* The unigrams and the adjacent-word bigrams of words from 0-based index st.
Candidates(words, st) ==
    {words[k] : k \in (st + 1)..Len(words)}
    \cup {words[k] \o <<" ">> \o words[k + 1] : k \in (st + 1)..(Len(words) - 1)}

\* C8: ExtractCities returns exactly the rows of country 'US' whose name is,
\* character for character, a unigram or an adjacent-word bigram taken from
\* the start index on, each once, longer names first, with no error; and an
\* empty sequence when no candidate matches.
C8_ExactMatchesLongestFirst ==
    lpc = "done" =>
        LET cand == Candidates(Words(msg.Sentence), start)
            matches == {g \in GazetteerRows :
                           /\ g \in gazetteer
                           /\ g.countrycode = "US"
                           /\ g.name \in cand}
        IN /\ cerr = "nil"
           /\ Range(cities) = matches
           /\ Len(cities) = Cardinality(matches)
           /\ \A a, b \in 1..Len(cities) :
                  a < b => Len(cities[a].name) >= Len(cities[b].name)
           /\ (matches = {} => cities = <<>>)

C8_Witness ==
    /\ lpc = "done"
    /\ cmd = <<wOn, wNew, wYorkComma>>
    /\ gazetteer = GazetteerRows
    /\ cities = << [name |-> NewYork, countrycode |-> "US"],
                   [name |-> wYork, countrycode |-> "US"] >>

\* The 0-based index of the first preposition among the stems, 0 without one.
FirstPreposition(stems) ==
    IF \E k \in 1..Len(stems) : stems[k] \in Prepositions
    THEN (CHOOSE k \in 1..Len(stems) :
              /\ stems[k] \in Prepositions
              /\ \A j \in 1..(k - 1) : stems[j] \notin Prepositions) - 1
    ELSE 0

\* C9: the candidates of ExtractCities start at the index of the first "at",
\* "in" or "on", also when several occur, and at index 0 when none occurs.
C9_StartsAtFirstPreposition ==
    lpc = "done" =>
        /\ start = FirstPreposition(msg.Stems)
        /\ Range(args) =
               Candidates(Words(msg.Sentence), FirstPreposition(msg.Stems))

\* What the claim says a word yields: the lower-cased word, followed by its
\* final mark as a token of its own when it ends in one.
ClaimedFieldsOfWord(w) ==
    IF w[Len(w)] \in Marks
    THEN <<ToLower(SubSeq(w, 1, Len(w) - 1)), <<w[Len(w)]>>>>
    ELSE <<ToLower(w)>>

RECURSIVE ClaimedFields(_)
ClaimedFields(sentence) ==
    IF sentence = <<>>
    THEN <<>>
    ELSE ClaimedFieldsOfWord(Head(sentence)) \o ClaimedFields(Tail(sentence))

RECURSIVE Flatten(_)
Flatten(ss) == IF ss = <<>> THEN <<>> ELSE Head(ss) \o Flatten(Tail(ss))

NonMarks(chars) == SelectSeq(chars, LAMBDA r : r \notin Marks)

\* A word with no mark, or with one mark, at its end.
PlainOrMarkAtEnd(w) ==
    \A k \in 1..(Len(w) - 1) : w[k] \notin Marks

\* C10: SentenceFields yields the tokens in reading order: a word ending in a
\* mark yields the lower-cased word without it and then the mark, a word
\* without a mark yields its lower-cased self, and no character other than a
\* mark is dropped.
C10_TokensInReadingOrder ==
    lpc \in {"msg", "done"} =>
        /\ (\A k \in 1..Len(cmd) : PlainOrMarkAtEnd(cmd[k])) =>
               msg.SentenceFields = ClaimedFields(cmd)
        /\ NonMarks(Flatten(msg.SentenceFields))
               = NonMarks(ToLower(Flatten(cmd)))

====
